---- MODULE Spec2Model ----
(***************************************************************************)
(* Portfolio tracker: the holdings store (localStorage), the add / remove  *)
(* handlers, the refresh controller (Effect 2 of the Index component), the *)
(* server-side loader (price aggregator) and the price / history adapters. *)
(*                                                                         *)
(* Conventions.                                                            *)
(*  - A JavaScript value that may be undefined is a sequence of length at  *)
(*    most one: <<>> is undefined, <<v>> is the value v.  A parseFloat     *)
(*    result is the same: <<>> is NaN.                                     *)
(*  - An object used as a map (AllPrices) is a function whose DOMAIN is    *)
(*    the key set.                                                         *)
(*  - A thrown exception is the record field threw = TRUE.                 *)
(*  - Ids are drawn from ids without ',' '&' or blanks, so that the query  *)
(*    string the controller builds splits back into the same lists.        *)
(***************************************************************************)
EXTENDS Integers, Sequences, FiniteSets, TLC

VARIABLES
    portfolio,      \* useState<Asset[]>: the in-memory holdings
    stored,         \* localStorage[PORTFOLIO_STORAGE_KEY]
    priceFetcher,   \* useFetcher(): state, data, and the query being loaded
    inFlight,       \* number of loader runs started and not yet completed
    pending,        \* which dependency change has scheduled Effect 2, or "none"
    changedInFlight,\* history: the holdings changed since the run in flight started
    completedQuery, \* history: the query of the last completed run
    addRemove,      \* history: the last add, and whether its removal followed
    totalValue,     \* useState(0): the displayed total portfolio value
    adapterCall     \* one call of fetchStockPrices or fetchCommodityPrices, step by step

pageVars == <<portfolio, stored, priceFetcher, inFlight, pending, changedInFlight,
              completedQuery, addRemove, totalValue>>

vars == <<portfolio, stored, priceFetcher, inFlight, pending, changedInFlight,
          completedQuery, addRemove, totalValue, adapterCall>>

-----------------------------------------------------------------------------
(* Bounds of the model *)

MaxHoldings == 3

-----------------------------------------------------------------------------
(* JavaScript helpers *)

undefined == <<>>
Some(v) == <<v>>
IsDefined(m) == m # <<>>

Range(s) == {s[i] : i \in DOMAIN s}

\* Order of the ids under Array.prototype.sort() (UTF-16 code units:
\* upper case before lower case).
IdOrder == <<"AAPL", "MSFT", "XAG", "XAU", "XPT", "bitcoin", "ethereum">>

Rank(id) == CHOOSE i \in DOMAIN IdOrder : IdOrder[i] = id

RECURSIVE Insert(_, _)
Insert(x, s) ==
    IF s = <<>> THEN <<x>>
    ELSE IF Rank(x) < Rank(Head(s)) THEN <<x>> \o s
    ELSE <<Head(s)>> \o Insert(x, Tail(s))

\* Array.prototype.sort() on a list of ids: ascending, duplicates kept.
RECURSIVE Sort(_)
Sort(s) == IF s = <<>> THEN <<>> ELSE Insert(Head(s), Sort(Tail(s)))

RECURSIVE SortedOfSet(_)
SortedOfSet(S) ==
    IF S = {} THEN <<>>
    ELSE LET x == CHOOSE y \in S : \A z \in S : Rank(y) <= Rank(z)
         IN <<x>> \o SortedOfSet(S \ {x})

\* Object.keys(obj).sort()
SortedKeys(obj) == SortedOfSet(DOMAIN obj)

\* { ...a, ...b }: the keys of both, b's entry where both have one.
Spread(a, b) == b @@ a

\* parseFloat on the strings a numeric form field can carry: <<>> is NaN.
parseFloat(s) ==
    CASE s = "0" -> Some(0)
      [] s = "2" -> Some(2)
      [] s = "100" -> Some(100)
      [] s = "300" -> Some(300)
      [] OTHER -> undefined

\* String.prototype.trim / toLowerCase / toUpperCase on the id inputs.
trim(s) == IF s = " " THEN "" ELSE s

toLowerCase(s) ==
    CASE s = "Bitcoin" -> "bitcoin"
      [] OTHER -> s

toUpperCase(s) ==
    CASE s = "aapl" -> "AAPL"
      [] s = "xau" -> "XAU"
      [] s = "xpt" -> "XPT"
      [] OTHER -> s

\* `asset-${type}-${Date.now()}`
AutoId(type, now) == "asset-" \o type \o "-" \o ToString(now)

-----------------------------------------------------------------------------
(* Holdings store: localStorage["portfolioData"] *)

\* The item under the key, as JSON.parse sees it:
\*   kind "null"     no item (getItem returns null): parsedData is []
\*   kind "invalid"  text that is not JSON: JSON.parse throws
\*   kind "value"    JSON that is not an array (an object, a number, a
\*                   string, a boolean, null): parsedData.map is not a function
\*   kind "array"    a JSON array of the elements items
\* An element of the array is a holding (a record of the Asset fields) or
\* one of the three JSON values below.

\* localStorage.getItem() before anything was written.
NoItem == [kind |-> "null", items |-> <<>>]

JsonNull == [json |-> "null"]
JsonNumber == [json |-> "number"]
JsonEmptyObject == [json |-> "object"]

\* One element of the parsed JSON array -> Asset (the mapper of
\* getClientPortfolio).  The other fields are spread unchanged; the spread
\* of a number or of {} has no field.
parseStoredAsset(item) ==
    IF "json" \in DOMAIN item
    THEN [quantity |-> Some(0), purchaseValue |-> undefined, currentValue |-> undefined]
    ELSE
    [item EXCEPT
        \* parseFloat(asset.quantity || "0"): null and 0 both give 0
        !.quantity = IF IsDefined(item.quantity) /\ item.quantity[1] # 0
                     THEN item.quantity ELSE Some(0),
        \* asset.purchaseValue ? parseFloat(asset.purchaseValue) : undefined
        !.purchaseValue = IF IsDefined(item.purchaseValue) /\ item.purchaseValue[1] # 0
                          THEN item.purchaseValue ELSE undefined,
        !.currentValue = IF IsDefined(item.currentValue) /\ item.currentValue[1] # 0
                         THEN item.currentValue ELSE undefined]

\* The try block returns the mapped array; the catch returns [] when
\* JSON.parse throws, when parsedData has no map method and when the mapper
\* reads asset.quantity of a null element.
getClientPortfolio(item) ==
    IF item.kind = "array" /\ \A i \in DOMAIN item.items : item.items[i] # JsonNull
    THEN [i \in DOMAIN item.items |-> parseStoredAsset(item.items[i])]
    ELSE <<>>

\* ({ price, calculatedValue, ...asset }) => asset, then JSON.stringify:
\* an undefined field is not written.
stripDerived(asset) == [asset EXCEPT !.price = undefined, !.calculatedValue = undefined]

\* Mutant of saveClientPortfolio: the write leaves out the last holding of
\* the list (the list as it was before an add).
saveClientPortfolio_WithoutLast(p) ==
    [kind |-> "array",
     items |-> [i \in 1..(Len(p) - 1) |-> stripDerived(p[i])]]

saveClientPortfolio(p) ==
    [kind |-> "array", items |-> [i \in DOMAIN p |-> stripDerived(p[i])]]

-----------------------------------------------------------------------------
(* Price source adapters and history source.  A world w is what the three  *)
(* vendors answer during one loader run:                                   *)
(*   w.coingecko    [ok, known]: simple/price answered 2xx or not, and the *)
(*                  price of every coin id the vendor knows                *)
(*   w.alphaVantage symbol -> [kind, price], kind one of "quote" (a body   *)
(*                  with "Global Quote", price its "05. price" string, ""  *)
(*                  when it has none), "no_quote" (a body without "Global  *)
(*                  Quote"), "message" (a body with "Error Message",       *)
(*                  "Information" or "Note"), "http_error" (non-2xx),      *)
(*                  "network_error" (fetch rejects)                        *)
(*   w.goldapi      symbol -> [kind, price], kind one of "price" (a body   *)
(*                  whose price is a number), "no_price" (a body whose     *)
(*                  price is missing or not a number), "error" (a body     *)
(*                  with error), "http_error", "network_error"             *)
(*   w.history      [ok, prices]: market_chart answered 2xx or not, and    *)
(*                  its [timestamp, price] pairs                           *)
(*   w.now          Date.now() on the server                               *)

Returned(v) == [threw |-> FALSE, value |-> v]
Thrown == [threw |-> TRUE, value |-> <<>>]

fetchCryptoPrices(ids, w) ==
    IF ids = <<>> THEN Returned(<<>>)
    ELSE IF ~w.coingecko.ok THEN Thrown
    ELSE Returned([id \in Range(ids) \cap DOMAIN w.coingecko.known |->
                      [usd |-> w.coingecko.known[id]]])

\* Mutant of stockStep: a failed request makes the loop start its results
\* over.
stockStep_FailureDropsResults(results, symbol, w) ==
    LET r == w.alphaVantage[symbol]
    IN IF r.kind \in {"network_error", "http_error"} THEN <<>>
       ELSE IF r.kind = "quote" /\ r.price # "" /\ IsDefined(parseFloat(r.price))
       THEN Spread(results, symbol :> [usd |-> parseFloat(r.price)[1]])
       ELSE results

\* One iteration of the for loop of fetchStockPrices.
stockStep(results, symbol, w) ==
    LET r == w.alphaVantage[symbol]
    IN IF r.kind \in {"network_error", "http_error"}
       THEN results      \* fetchWithDelay throws; the catch records the error
       ELSE IF r.kind = "message"
       THEN results      \* isAlphaVantageError(data): continue
       ELSE IF r.kind = "quote" /\ r.price # ""
       THEN LET price == parseFloat(r.price)
            IN IF IsDefined(price)
               THEN Spread(results, symbol :> [usd |-> price[1]])
               ELSE results
       ELSE results

RECURSIVE stockLoop(_, _, _)
stockLoop(results, symbols, w) ==
    IF symbols = <<>> THEN results
    ELSE stockLoop(stockStep(results, Head(symbols), w), Tail(symbols), w)

fetchStockPrices(symbols, w) ==
    IF symbols = <<>> THEN Returned(<<>>)
    ELSE Returned(stockLoop(<<>>, symbols, w))

supportedSymbols == {"XAU", "XAG"}

commodityStep(results, symbol, w) ==
    LET upperSymbol == toUpperCase(symbol)
        r == w.goldapi[upperSymbol]
    IN IF r.kind = "price" THEN Spread(results, upperSymbol :> [usd |-> r.price])
       ELSE results

RECURSIVE commodityLoop(_, _, _)
commodityLoop(results, symbols, w) ==
    IF symbols = <<>> THEN results
    ELSE commodityLoop(commodityStep(results, Head(symbols), w), Tail(symbols), w)

\* Mutant of symbolsToFetch: the input is not filtered.
symbolsToFetch_NoFilter(symbols) == symbols

\* symbols.filter(s => supportedSymbols.includes(s.toUpperCase()))
symbolsToFetch(symbols) ==
    SelectSeq(symbols, LAMBDA s : toUpperCase(s) \in supportedSymbols)

fetchCommodityPrices(symbols, w) ==
    IF symbolsToFetch(symbols) = <<>> THEN Returned(<<>>)
    ELSE Returned(commodityLoop(<<>>, symbolsToFetch(symbols), w))

\* Timestamps are counted in minutes (the code counts milliseconds).
Hour == 60
Day == 24 * Hour

\* Mutant of fetchCryptoHistory: the last point is removed whatever its
\* timestamp.
fetchCryptoHistory_AlwaysPops(id, w) ==
    IF ~w.history.ok THEN Thrown
    ELSE LET prices == w.history.prices
         IN IF prices # <<>>
            THEN Returned([prices |-> SubSeq(prices, 1, Len(prices) - 1)])
            ELSE Returned([prices |-> prices])

fetchCryptoHistory(id, w) ==
    IF ~w.history.ok THEN Thrown
    ELSE LET prices == w.history.prices
         IN IF prices # <<>> /\ w.now - prices[Len(prices)][1] < 23 * Hour
            THEN Returned([prices |-> SubSeq(prices, 1, Len(prices) - 1)])
            ELSE Returned([prices |-> prices])

-----------------------------------------------------------------------------
(* One call of the equity or of the commodity adapter, step by step.  The  *)
(* call is a record:                                                       *)
(*   adapter   "stock", "commodity", or "none" when no call is followed    *)
(*   input     the list the adapter was called with                        *)
(*   symbols   the list the for loop iterates over                         *)
(*   i         the position of the loop in symbols                         *)
(*   pc        "called", "iterate" (top of the loop body), "fetch" (the    *)
(*             delay of fetchWithDelay is over), "awaiting" (the request   *)
(*             is out), "returned"                                         *)
(*   results   the results object                                          *)
(*   now       the time, in seconds since the call                         *)
(*   requests  the requests issued: symbol, time started, time finished    *)
(*             (-1 while it is out)                                        *)
(*   w         what the vendor answers for each symbol                     *)

\* setTimeout(resolve, 13000), in seconds
InterRequestDelay == 13

NoCall ==
    [adapter |-> "none", input |-> <<>>, symbols |-> <<>>, i |-> 0, pc |-> "idle",
     results |-> <<>>, now |-> 0, requests |-> <<>>,
     w |-> [alphaVantage |-> <<>>, goldapi |-> <<>>]]

NewCall(adapter, input, w) ==
    [NoCall EXCEPT !.adapter = adapter, !.input = input, !.pc = "called", !.w = w]

\* The function body up to the loop: the early returns and the list to
\* iterate over.
enterAdapter(c) ==
    LET symbols == IF c.adapter = "commodity" THEN symbolsToFetch(c.input) ELSE c.input
    IN IF symbols = <<>>
       THEN [c EXCEPT !.pc = "returned"]
       ELSE [c EXCEPT !.symbols = symbols, !.i = 1, !.pc = "iterate"]

\* await new Promise(resolve => setTimeout(resolve, 13000))
awaitDelay(c) == [c EXCEPT !.now = c.now + InterRequestDelay, !.pc = "fetch"]

\* The symbol a request is made for: fetchCommodityPrices upper-cases it.
requestSymbol(c) ==
    IF c.adapter = "commodity" THEN toUpperCase(c.symbols[c.i]) ELSE c.symbols[c.i]

\* fetch(url)
issueRequest(c) ==
    [c EXCEPT !.requests = Append(c.requests,
                  [symbol |-> requestSymbol(c), started |-> c.now, finished |-> -1]),
              !.pc = "awaiting"]

\* The request settles after latency seconds and the rest of the loop body
\* runs; then the next iteration, or the return after the last.
settleRequest(c, latency) ==
    [c EXCEPT !.now = c.now + latency,
              !.requests[Len(c.requests)].finished = c.now + latency,
              !.results = IF c.adapter = "stock"
                          THEN stockStep(c.results, c.symbols[c.i], c.w)
                          ELSE commodityStep(c.results, c.symbols[c.i], c.w),
              !.i = c.i + 1,
              !.pc = IF c.i = Len(c.symbols) THEN "returned" ELSE "iterate"]

-----------------------------------------------------------------------------
(* Price aggregator: the server-side loader.  A query is the three id      *)
(* lists of the URL, in the order the controller joined them.              *)

EmptyQuery == [cryptoIds |-> <<>>, stockSymbols |-> <<>>, commoditySymbols |-> <<>>]

\* param ? param.split(',').filter(id => id.trim() !== '') : []
splitParam(list) == SelectSeq(list, LAMBDA id : trim(id) # "")

historyAssetId(query) ==
    LET cryptoIds == splitParam(query.cryptoIds)
    IN IF Len(cryptoIds) > 0 THEN Some(cryptoIds[1]) ELSE undefined

\* new Date(ts).toLocaleDateString(): the calendar day of the timestamp
toLocaleDateString(ts) == ts \div Day

loader(query, w) ==
    LET cryptoIds == splitParam(query.cryptoIds)
        stockSymbols == splitParam(query.stockSymbols)
        commoditySymbols == splitParam(query.commoditySymbols)
        hid == historyAssetId(query)
        cryptoPricesResult == fetchCryptoPrices(cryptoIds, w)
        stockPricesResult == fetchStockPrices(stockSymbols, w)
        commodityPricesResult == fetchCommodityPrices(commoditySymbols, w)
        historyDataResult == IF IsDefined(hid) THEN fetchCryptoHistory(hid[1], w)
                             ELSE Returned(<<>>)
    IN IF \/ cryptoPricesResult.threw
          \/ stockPricesResult.threw
          \/ commodityPricesResult.threw
          \/ historyDataResult.threw
       THEN \* catch: status 500
            [currentPrices |-> <<>>, chartData |-> <<>>, chartAssetName |-> "Error"]
       ELSE [currentPrices |->
                 Spread(Spread(cryptoPricesResult.value, stockPricesResult.value),
                        commodityPricesResult.value),
             chartData |->
                 IF IsDefined(hid)
                 THEN LET prices == historyDataResult.value.prices
                      IN [i \in DOMAIN prices |->
                             [date |-> toLocaleDateString(prices[i][1]),
                              value |-> prices[i][2]]]
                 ELSE <<>>,
             chartAssetName |-> IF IsDefined(hid) THEN hid[1] ELSE "N/A"]

-----------------------------------------------------------------------------
(* Index component: loader data, refresh controller (Effect 2) *)

\* useLoaderData(): the loader's answer to the page request, which carries
\* no id list, so no adapter is called.
initialLoaderData ==
    [currentPrices |-> <<>>, chartData |-> <<>>, chartAssetName |-> "N/A"]

IdleFetcher == [state |-> "idle", data |-> undefined, query |-> undefined]

\* portfolio.filter(asset => asset.type === t && asset.id).map(asset => asset.id)
idsOfType(p, t) ==
    LET kept == SelectSeq(p, LAMBDA asset : asset.type = t /\ asset.id # "")
    IN [i \in DOMAIN kept |-> kept[i].id]

commoditySymbolsOf(p) ==
    LET kept == SelectSeq(p, LAMBDA asset :
                    asset.type = "commodity" /\ asset.id \in {"XAU", "XAG"})
    IN [i \in DOMAIN kept |-> kept[i].id]

\* The query string of Effect 2, built from the three lists before any of
\* them is sorted.
buildQuery(p) ==
    [cryptoIds |-> idsOfType(p, "crypto"),
     stockSymbols |-> idsOfType(p, "stock"),
     commoditySymbols |-> commoditySymbolsOf(p)]

\* [...neededCryptoIds, ...neededStockIds, ...neededCommodityIds].sort()
neededIds(p) ==
    Sort(Sort(idsOfType(p, "crypto")) \o Sort(idsOfType(p, "stock"))
         \o Sort(commoditySymbolsOf(p)))

\* cryptoIds[0] read after cryptoIds.sort() has sorted the array in place
neededChartName(p) ==
    LET cryptoIds == Sort(idsOfType(p, "crypto"))
    IN IF Len(cryptoIds) > 0 THEN cryptoIds[1] ELSE "N/A"

\* Object.keys(priceFetcher.data?.currentPrices ?? {}).sort()
currentFetchedIds(f) ==
    IF IsDefined(f.data) THEN SortedKeys(f.data[1].currentPrices) ELSE <<>>

\* priceFetcher.data?.chartAssetName ?? initialLoaderData.chartAssetName
currentChartName(f) ==
    IF IsDefined(f.data) THEN f.data[1].chartAssetName
    ELSE initialLoaderData.chartAssetName

\* Mutant of Effect2Load: the fetcher state is not consulted.
Effect2Load_NoIdleGuard(p, f) ==
    IF Len(p) > 0
    THEN IF \/ ~IsDefined(f.data)
            \/ neededIds(p) # currentFetchedIds(f)
            \/ neededChartName(p) # currentChartName(f)
         THEN Some(buildQuery(p))
         ELSE undefined
    ELSE IF IsDefined(f.data) /\ DOMAIN f.data[1].currentPrices # {}
    THEN Some(EmptyQuery)
    ELSE undefined

\* Mutant of Effect2Load: only the first fetch is made; later evaluations
\* for non-empty holdings compare nothing.
Effect2Load_OnlyFirstFetch(p, f) ==
    IF Len(p) > 0 /\ f.state = "idle"
    THEN IF ~IsDefined(f.data) THEN Some(buildQuery(p)) ELSE undefined
    ELSE IF f.state # "idle"
    THEN undefined
    ELSE IF IsDefined(f.data) /\ DOMAIN f.data[1].currentPrices # {}
    THEN Some(EmptyQuery)
    ELSE undefined

\* Mutant of Effect2Load: empty holdings reload whenever data is present,
\* whether or not the fetched price map is empty.
Effect2Load_ClearsAlways(p, f) ==
    IF Len(p) > 0 /\ f.state = "idle"
    THEN IF \/ ~IsDefined(f.data)
            \/ neededIds(p) # currentFetchedIds(f)
            \/ neededChartName(p) # currentChartName(f)
         THEN Some(buildQuery(p))
         ELSE undefined
    ELSE IF f.state # "idle"
    THEN undefined
    ELSE IF IsDefined(f.data)
    THEN Some(EmptyQuery)
    ELSE undefined

\* The body of Effect 2: the query it hands to priceFetcher.load, or
\* undefined when it loads nothing.
Effect2Load(p, f) ==
    IF Len(p) > 0 /\ f.state = "idle"
    THEN IF \/ ~IsDefined(f.data)
            \/ neededIds(p) # currentFetchedIds(f)
            \/ neededChartName(p) # currentChartName(f)
         THEN Some(buildQuery(p))
         ELSE undefined
    ELSE IF f.state # "idle"
    THEN undefined
    ELSE IF IsDefined(f.data) /\ DOMAIN f.data[1].currentPrices # {}
    THEN Some(EmptyQuery)
    ELSE undefined

\* priceFetcher.load(query)
load(f, query) == [f EXCEPT !.state = "loading", !.query = Some(query)]

-----------------------------------------------------------------------------
(* Index component: valuation (Memo 1) and total value (Effect 3).         *)
(* Values are integers; the inputs of the model make every division exact. *)

\* priceFetcher.data?.currentPrices ?? initialLoaderData.currentPrices
currentPrices(f) ==
    IF IsDefined(f.data) THEN f.data[1].currentPrices
    ELSE initialLoaderData.currentPrices

\* The four branches of the callback of portfolio.map in Memo 1.
marketValued(asset, price) ==
    [asset EXCEPT !.price = Some(price),
                  !.calculatedValue = Some(asset.quantity[1] * price)]

manuallyValued(asset, calculatedValue) ==
    [asset EXCEPT !.price = IF asset.quantity[1] > 0
                            THEN Some(calculatedValue \div asset.quantity[1])
                            ELSE undefined,
                  !.calculatedValue = Some(calculatedValue)]

placeholderValue(asset) ==
    IF IsDefined(asset.purchaseValue) THEN asset.purchaseValue[1]
    ELSE asset.quantity[1] * 50

notValued(asset) == [asset EXCEPT !.price = undefined, !.calculatedValue = undefined]

\* Mutant of calculateAsset: a priced holding that has a purchase value is
\* valued at its purchase value.
calculateAsset_PurchaseValueFirst(asset, prices) ==
    IF asset.id \in DOMAIN prices /\ asset.type \in {"crypto", "stock", "commodity"}
    THEN IF IsDefined(asset.purchaseValue)
         THEN manuallyValued(asset, asset.purchaseValue[1])
         ELSE marketValued(asset, prices[asset.id].usd)
    ELSE IF asset.type = "real_estate" /\ IsDefined(asset.currentValue)
    THEN manuallyValued(asset, asset.currentValue[1])
    ELSE IF asset.type = "other"
    THEN manuallyValued(asset, placeholderValue(asset))
    ELSE notValued(asset)

\* Mutant of calculateAsset: the kind of the holding is not tested before
\* the price map entry under its id is used.
calculateAsset_AnyKindPriced(asset, prices) ==
    IF asset.id \in DOMAIN prices
    THEN marketValued(asset, prices[asset.id].usd)
    ELSE IF asset.type = "real_estate" /\ IsDefined(asset.currentValue)
    THEN manuallyValued(asset, asset.currentValue[1])
    ELSE IF asset.type = "other"
    THEN manuallyValued(asset, placeholderValue(asset))
    ELSE notValued(asset)

\* Mutant of calculateAsset: purchaseValue || quantity * 50, so that a
\* purchase value of 0 falls back to the placeholder.
calculateAsset_FalsyPurchaseValue(asset, prices) ==
    IF asset.id \in DOMAIN prices /\ asset.type \in {"crypto", "stock", "commodity"}
    THEN marketValued(asset, prices[asset.id].usd)
    ELSE IF asset.type = "real_estate" /\ IsDefined(asset.currentValue)
    THEN manuallyValued(asset, asset.currentValue[1])
    ELSE IF asset.type = "other"
    THEN manuallyValued(asset,
            IF IsDefined(asset.purchaseValue) /\ asset.purchaseValue[1] # 0
            THEN asset.purchaseValue[1] ELSE asset.quantity[1] * 50)
    ELSE notValued(asset)

\* Mutant of calculateAsset: a holding without a price is valued 0.
calculateAsset_ZeroWhenUnpriced(asset, prices) ==
    IF asset.id \in DOMAIN prices /\ asset.type \in {"crypto", "stock", "commodity"}
    THEN marketValued(asset, prices[asset.id].usd)
    ELSE IF asset.type = "real_estate" /\ IsDefined(asset.currentValue)
    THEN manuallyValued(asset, asset.currentValue[1])
    ELSE IF asset.type = "other"
    THEN manuallyValued(asset, placeholderValue(asset))
    ELSE [asset EXCEPT !.price = undefined, !.calculatedValue = Some(0)]

\* The callback of portfolio.map in Memo 1: the holding with its price and
\* calculatedValue.
calculateAsset(asset, prices) ==
    IF asset.id \in DOMAIN prices /\ asset.type \in {"crypto", "stock", "commodity"}
    THEN marketValued(asset, prices[asset.id].usd)
    ELSE IF asset.type = "real_estate" /\ IsDefined(asset.currentValue)
    THEN manuallyValued(asset, asset.currentValue[1])
    ELSE IF asset.type = "other"
    THEN manuallyValued(asset, placeholderValue(asset))
    ELSE notValued(asset)

portfolioWithCalculatedValues(p, prices) ==
    [i \in DOMAIN p |-> calculateAsset(p[i], prices)]

\* Mutant of newTotalValue: the unit prices are summed instead of the
\* calculated values.
RECURSIVE newTotalValue_SumsPrices(_)
newTotalValue_SumsPrices(rows) ==
    IF rows = <<>> THEN 0
    ELSE LET asset == rows[Len(rows)]
         IN newTotalValue_SumsPrices(SubSeq(rows, 1, Len(rows) - 1))
            + (IF IsDefined(asset.price) THEN asset.price[1] ELSE 0)

\* rows.reduce((sum, asset) => sum + (asset.calculatedValue || 0), 0)
RECURSIVE newTotalValue(_)
newTotalValue(rows) ==
    IF rows = <<>> THEN 0
    ELSE LET asset == rows[Len(rows)]
         IN newTotalValue(SubSeq(rows, 1, Len(rows) - 1))
            + (IF IsDefined(asset.calculatedValue) THEN asset.calculatedValue[1] ELSE 0)

-----------------------------------------------------------------------------
(* Index component: add / remove handlers *)

\* Mutant of newAssetOf: a blank id is generated for every kind, the kinds
\* that need a fetch id included.
newAssetOf_AutoIdAlways(form, now) ==
    LET quantity == parseFloat(IF form.quantity # "" THEN form.quantity ELSE "0")
        purchaseValue == IF form.purchaseValue # "" THEN parseFloat(form.purchaseValue)
                         ELSE undefined
        manualCurrentValue == IF form.currentValue # "" THEN parseFloat(form.currentValue)
                              ELSE undefined
        type == form.type
        id1 == IF form.id = "" THEN ""
               ELSE IF type = "crypto" THEN toLowerCase(trim(form.id))
               ELSE IF type \in {"stock", "commodity"} THEN toUpperCase(trim(form.id))
               ELSE trim(form.id)
        requiresFetchId == \/ type = "crypto"
                           \/ type = "stock"
                           \/ (type = "commodity" /\ id1 \in {"XAU", "XAG"})
        id == IF id1 = "" THEN AutoId(type, now) ELSE id1
    IN IF form.name = "" \/ form.symbol = "" \/ type = "" \/ ~IsDefined(quantity)
       THEN undefined
       ELSE IF form.id # "" /\ type = "commodity" /\ id1 \notin {"XAU", "XAG"}
       THEN undefined
       ELSE Some([id |-> id, name |-> form.name, symbol |-> form.symbol,
                  type |-> type, quantity |-> quantity,
                  purchaseValue |-> purchaseValue,
                  currentValue |-> IF type = "real_estate" THEN manualCurrentValue
                                   ELSE undefined,
                  price |-> undefined, calculatedValue |-> undefined])

\* The Asset handleAddAsset builds from the form, or undefined when it
\* returns before setPortfolio.
newAssetOf(form, now) ==
    LET quantity == parseFloat(IF form.quantity # "" THEN form.quantity ELSE "0")
        purchaseValue == IF form.purchaseValue # "" THEN parseFloat(form.purchaseValue)
                         ELSE undefined
        manualCurrentValue == IF form.currentValue # "" THEN parseFloat(form.currentValue)
                              ELSE undefined
        type == form.type
        id1 == IF form.id = "" THEN ""
               ELSE IF type = "crypto" THEN toLowerCase(trim(form.id))
               ELSE IF type \in {"stock", "commodity"} THEN toUpperCase(trim(form.id))
               ELSE trim(form.id)
        requiresFetchId == \/ type = "crypto"
                           \/ type = "stock"
                           \/ (type = "commodity" /\ id1 \in {"XAU", "XAG"})
        id == IF id1 = "" THEN AutoId(type, now) ELSE id1
    IN IF form.name = "" \/ form.symbol = "" \/ type = "" \/ ~IsDefined(quantity)
       THEN undefined
       ELSE IF form.id # "" /\ type = "commodity" /\ id1 \notin {"XAU", "XAG"}
       THEN undefined
       ELSE IF id1 = "" /\ requiresFetchId
       THEN undefined
       ELSE Some([id |-> id, name |-> form.name, symbol |-> form.symbol,
                  type |-> type, quantity |-> quantity,
                  purchaseValue |-> purchaseValue,
                  currentValue |-> IF type = "real_estate" THEN manualCurrentValue
                                   ELSE undefined,
                  price |-> undefined, calculatedValue |-> undefined])

\* Mutant of alreadyExists: the duplicate check never fires.
alreadyExists_Never(p, id) == FALSE

\* prevPortfolio.some(asset => asset.id === newAsset.id)
alreadyExists(p, id) == \E i \in DOMAIN p : p[i].id = id

\* prevPortfolio.filter(asset => asset.id !== assetId)
removeById(p, assetId) == SelectSeq(p, LAMBDA asset : asset.id # assetId)

-----------------------------------------------------------------------------
(* Inputs *)

Form(id, type, quantity, purchaseValue, currentValue) ==
    [id |-> id, type |-> type, name |-> "n", symbol |-> "s", quantity |-> quantity,
     purchaseValue |-> purchaseValue, currentValue |-> currentValue]

\* Forms of the refresh-controller specification: two coins entered in
\* either order, one equity, one metal, one holding that is never fetched.
Forms ==
    {Form("bitcoin", "crypto", "2", "", ""),
     Form("ethereum", "crypto", "2", "", ""),
     Form("AAPL", "stock", "2", "", ""),
     Form("", "other", "2", "", "")}

Clock == {1}

FetchIds == {"bitcoin", "ethereum", "AAPL", "XAU", "XAG"}

Now == 1000 * Day

\* A closed daily point: older than 23 hours.
ClosedSeries == << <<Now - 2 * Day, 100>> >>

\* The world in which the vendors price exactly the ids of avail.
WorldOf(avail, cryptoOk, historyOk) ==
    [coingecko |-> [ok |-> cryptoOk, known |-> [id \in avail |-> 100]],
     alphaVantage |-> [sym \in FetchIds |->
        IF sym \in avail THEN [kind |-> "quote", price |-> "100"]
        ELSE [kind |-> "message", price |-> ""]],
     goldapi |-> [sym \in FetchIds |->
        IF sym \in avail THEN [kind |-> "price", price |-> 100]
        ELSE [kind |-> "http_error", price |-> 0]],
     history |-> [ok |-> historyOk, prices |-> ClosedSeries],
     now |-> Now]

\* The ids a query asks a price for.
requestedIds(query) ==
    Range(query.cryptoIds) \cup Range(query.stockSymbols) \cup Range(query.commoditySymbols)

\* The worlds that differ for the run in flight: every subset of the
\* requested ids priced, each of the two CoinGecko requests answered or not.
Worlds ==
    {WorldOf(avail, c, h) :
        avail \in SUBSET (IF IsDefined(priceFetcher.query)
                          THEN requestedIds(priceFetcher.query[1]) ELSE {}),
        c \in BOOLEAN, h \in BOOLEAN}

-----------------------------------------------------------------------------
(* State machine *)

\* addRemove: the id of the last add, whether setPortfolio accepted it and
\* the persisted record H before it; stage "removed" once the removal of
\* that id has followed.
NoAddRemove == [stage |-> "none", id |-> "", H |-> NoItem, accepted |-> FALSE]

Init ==
    /\ portfolio = <<>>
    /\ stored = NoItem
    /\ priceFetcher = IdleFetcher
    /\ inFlight = 0
    /\ pending = "mount"
    /\ changedInFlight = FALSE
    /\ completedQuery = undefined
    /\ addRemove = NoAddRemove
    /\ totalValue = 0
    /\ adapterCall = NoCall

\* One run of Effect 2 against the holdings p.
RunEffect2(p) ==
    LET query == Effect2Load(p, priceFetcher)
    IN /\ changedInFlight' = (priceFetcher.state # "idle" /\ changedInFlight)
       /\ IF IsDefined(query)
          THEN /\ priceFetcher' = load(priceFetcher, query[1])
               /\ inFlight' = inFlight + 1
          ELSE UNCHANGED <<priceFetcher, inFlight>>

\* One run of Effect 3 against the holdings p: the total of the calculated
\* values of Memo 1.
RunEffect3(p) ==
    totalValue' = newTotalValue(portfolioWithCalculatedValues(p, currentPrices(priceFetcher)))

\* Mount: Effect 1 and the first runs of Effect 2 and Effect 3 see the
\* initial, empty holdings; Effect 1 sets the holdings read from the store,
\* which schedules the effects again.
Mount ==
    /\ pending = "mount"
    /\ RunEffect2(portfolio)
    /\ RunEffect3(portfolio)
    /\ portfolio' = getClientPortfolio(stored)
    /\ pending' = "holdings"
    /\ UNCHANGED <<stored, completedQuery, addRemove, adapterCall>>

\* The effects of the render that follows a change of the holdings, of
\* the fetcher state or of the fetched data: Effect 2, then Effect 3.
Effect2 ==
    /\ pending \in {"holdings", "loading", "completed"}
    /\ RunEffect2(portfolio)
    /\ RunEffect3(portfolio)
    /\ pending' = IF priceFetcher'.state # priceFetcher.state THEN "loading" ELSE "none"
    /\ UNCHANGED <<portfolio, stored, completedQuery, addRemove, adapterCall>>

handleAddAsset(form, now) ==
    /\ pending = "none"
    /\ Len(portfolio) < MaxHoldings
    /\ LET newAsset == newAssetOf(form, now)
       IN IF ~IsDefined(newAsset)
          THEN UNCHANGED vars
          ELSE IF alreadyExists(portfolio, newAsset[1].id)
          THEN /\ addRemove' = [stage |-> "added", id |-> newAsset[1].id, H |-> stored,
                                accepted |-> FALSE]
               /\ UNCHANGED <<portfolio, stored, priceFetcher, inFlight, pending,
                              changedInFlight, completedQuery, totalValue, adapterCall>>
          ELSE LET updatedPortfolio == Append(portfolio, newAsset[1])
               IN /\ portfolio' = updatedPortfolio
                  /\ stored' = saveClientPortfolio(updatedPortfolio)
                  /\ pending' = "holdings"
                  /\ addRemove' = [stage |-> "added", id |-> newAsset[1].id,
                                   H |-> stored, accepted |-> TRUE]
                  /\ changedInFlight' = (priceFetcher.state = "loading")
                  /\ UNCHANGED <<priceFetcher, inFlight, completedQuery, totalValue,
                                 adapterCall>>

\* The Remove button of a row of the table.
handleRemoveAsset(assetId) ==
    /\ pending = "none"
    /\ alreadyExists(portfolio, assetId)
    /\ LET updatedPortfolio == removeById(portfolio, assetId)
       IN /\ portfolio' = updatedPortfolio
          /\ stored' = saveClientPortfolio(updatedPortfolio)
    /\ pending' = "holdings"
    /\ addRemove' = IF addRemove.stage = "added" /\ addRemove.id = assetId
                    THEN [addRemove EXCEPT !.stage = "removed"]
                    ELSE NoAddRemove
    /\ changedInFlight' = (priceFetcher.state = "loading")
    /\ UNCHANGED <<priceFetcher, inFlight, completedQuery, totalValue, adapterCall>>

\* The loader answers the run in flight: the fetcher returns to idle with
\* the answer as its data.
Complete(w) ==
    /\ pending = "none"
    /\ priceFetcher.state = "loading"
    /\ priceFetcher' = [state |-> "idle",
                        data |-> Some(loader(priceFetcher.query[1], w)),
                        query |-> undefined]
    /\ inFlight' = inFlight - 1
    /\ completedQuery' = priceFetcher.query
    /\ pending' = "completed"
    /\ UNCHANGED <<portfolio, stored, changedInFlight, addRemove, totalValue, adapterCall>>

\* The page is loaded again: the component state is rebuilt, the store stays.
Reload ==
    /\ pending = "none"
    /\ portfolio' = <<>>
    /\ priceFetcher' = IdleFetcher
    /\ inFlight' = 0
    /\ pending' = "mount"
    /\ changedInFlight' = FALSE
    /\ completedQuery' = undefined
    /\ addRemove' = NoAddRemove
    /\ totalValue' = 0
    /\ UNCHANGED <<stored, adapterCall>>

Next ==
    \/ Mount
    \/ Effect2
    \/ \E form \in Forms, now \in Clock : handleAddAsset(form, now)
    \/ \E i \in DOMAIN portfolio : handleRemoveAsset(portfolio[i].id)
    \/ \E w \in Worlds : Complete(w)

\* The refresh controller: one page session from an empty store.
Spec == Init /\ [][Next]_vars

\* Forms of the holdings-store specification: ids that normalise to the
\* same id, ids that are generated, zero and non-zero optional values.
StoreForms ==
    {Form("bitcoin", "crypto", "2", "", ""),
     Form("Bitcoin", "crypto", "0", "100", ""),
     Form("", "other", "2", "0", ""),
     Form("", "other", "", "100", ""),
     Form("", "real_estate", "2", "", "0"),
     Form("", "real_estate", "0", "100", "300"),
     Form("xpt", "commodity", "2", "", ""),
     Form("", "crypto", "2", "", ""),
     Form("bitcoin", "crypto", "abc", "", "")}

StoreClock == {1, 2}

StoreNext ==
    \/ Mount
    \/ Effect2
    \/ \E form \in StoreForms, now \in StoreClock : handleAddAsset(form, now)
    \/ \E i \in DOMAIN portfolio : handleRemoveAsset(portfolio[i].id)
    \/ \E w \in Worlds : Complete(w)
    \/ Reload

\* The holdings store: page sessions over one store, from an empty store.
StoreSpec == Init /\ [][StoreNext]_vars

\* Holdings as the page writes them: those of the accepted forms.
WrittenHoldings ==
    {stripDerived(newAssetOf(form, 1)[1]) :
        form \in {f \in StoreForms : IsDefined(newAssetOf(f, 1))}}

MaxPayload == 2

\* What the key can hold when the page is loaded: nothing, text that is not
\* JSON, JSON that is not an array, and arrays of holdings and other values.
Payloads ==
    {NoItem, [kind |-> "invalid", items |-> <<>>], [kind |-> "value", items |-> <<>>]}
    \cup {[kind |-> "array", items |-> items] :
            items \in UNION {[1..n -> WrittenHoldings \cup {JsonNull, JsonNumber, JsonEmptyObject}] :
                              n \in 0..MaxPayload}}

PayloadInit ==
    /\ stored \in Payloads
    /\ portfolio = <<>>
    /\ priceFetcher = IdleFetcher
    /\ inFlight = 0
    /\ pending = "mount"
    /\ changedInFlight = FALSE
    /\ completedQuery = undefined
    /\ addRemove = NoAddRemove
    /\ totalValue = 0
    /\ adapterCall = NoCall

\* Loading the page over any payload: the mount reads the holdings.
PayloadSpec == PayloadInit /\ [][Mount]_vars

Holding(id, type, quantity, purchaseValue, currentValue) ==
    [id |-> id, name |-> "n", symbol |-> "s", type |-> type,
     quantity |-> Some(quantity), purchaseValue |-> purchaseValue,
     currentValue |-> currentValue, price |-> undefined, calculatedValue |-> undefined]

\* Holdings of every kind, with and without the optional values, with
\* quantity zero and non-zero; the manually valued ones under ids that the
\* price map can hold an entry for.
ValuedAssets ==
    {Holding("bitcoin", "crypto", q, pv, undefined) :
        q \in {0, 2}, pv \in {undefined, Some(100)}}
    \cup {Holding("AAPL", "stock", 2, undefined, undefined)}
    \cup {Holding(id, "commodity", 2, undefined, undefined) : id \in {"XAU", "XPT"}}
    \cup {Holding("bitcoin", "real_estate", q, undefined, cv) :
            q \in {0, 2}, cv \in {undefined, Some(0), Some(300)}}
    \cup {Holding("AAPL", "other", q, pv, undefined) :
            q \in {0, 2}, pv \in {undefined, Some(0), Some(100)}}

MaxValued == 2

ValuedPortfolios ==
    {p \in UNION {[1..n -> ValuedAssets] : n \in 1..MaxValued} :
        \A i, j \in DOMAIN p : p[i].id = p[j].id => i = j}

PriceMaps ==
    UNION {[S -> {[usd |-> 0], [usd |-> 100]}] : S \in SUBSET {"bitcoin", "AAPL", "XAU"}}

\* A run has completed with any price map, for any holdings.
ValuationInit ==
    /\ portfolio \in ValuedPortfolios
    /\ stored = saveClientPortfolio(portfolio)
    /\ \E prices \in PriceMaps :
          priceFetcher = [state |-> "idle",
                          data |-> Some([currentPrices |-> prices, chartData |-> <<>>,
                                         chartAssetName |-> "N/A"]),
                          query |-> undefined]
    /\ inFlight = 0
    /\ pending = "completed"
    /\ changedInFlight = FALSE
    /\ completedQuery = undefined
    /\ addRemove = NoAddRemove
    /\ totalValue = 0
    /\ adapterCall = NoCall

\* Valuation: the effects of the render over any holdings and price map.
ValuationSpec == ValuationInit /\ [][Effect2]_vars

-----------------------------------------------------------------------------
(* The adapters, one call at a time *)

MaxSymbols == 3

Latencies == {1, 2}

AlphaVantageAnswers ==
    {[kind |-> "quote", price |-> "100"], [kind |-> "quote", price |-> "abc"],
     [kind |-> "quote", price |-> ""], [kind |-> "no_quote", price |-> ""],
     [kind |-> "message", price |-> ""], [kind |-> "http_error", price |-> ""],
     [kind |-> "network_error", price |-> ""]}

GoldApiAnswers ==
    {[kind |-> "price", price |-> 100], [kind |-> "price", price |-> 0],
     [kind |-> "no_price", price |-> 0], [kind |-> "error", price |-> 0],
     [kind |-> "http_error", price |-> 0], [kind |-> "network_error", price |-> 0]}

ListsOf(ids) == UNION {[1..n -> ids] : n \in 0..MaxSymbols}

AdapterCalls ==
    {NewCall("stock", input, [alphaVantage |-> a, goldapi |-> <<>>]) :
        input \in ListsOf({"AAPL", "MSFT"}),
        a \in [{"AAPL", "MSFT"} -> AlphaVantageAnswers]}
    \cup {NewCall("commodity", input, [alphaVantage |-> <<>>, goldapi |-> g]) :
            input \in ListsOf({"XAU", "XAG", "XPT", "xau"}),
            g \in [supportedSymbols -> GoldApiAnswers]}

AdapterInit ==
    /\ portfolio = <<>>
    /\ stored = NoItem
    /\ priceFetcher = IdleFetcher
    /\ inFlight = 0
    /\ pending = "mount"
    /\ changedInFlight = FALSE
    /\ completedQuery = undefined
    /\ addRemove = NoAddRemove
    /\ totalValue = 0
    /\ adapterCall \in AdapterCalls

EnterAdapter ==
    /\ adapterCall.pc = "called"
    /\ adapterCall' = enterAdapter(adapterCall)
    /\ UNCHANGED pageVars

\* fetchWithDelay, up to its fetch: the equity adapter only.
AwaitDelay ==
    /\ adapterCall.pc = "iterate"
    /\ adapterCall.adapter = "stock"
    /\ adapterCall' = awaitDelay(adapterCall)
    /\ UNCHANGED pageVars

IssueRequest ==
    /\ \/ adapterCall.pc = "fetch"
       \/ adapterCall.pc = "iterate" /\ adapterCall.adapter = "commodity"
    /\ adapterCall' = issueRequest(adapterCall)
    /\ UNCHANGED pageVars

SettleRequest(latency) ==
    /\ adapterCall.pc = "awaiting"
    /\ adapterCall' = settleRequest(adapterCall, latency)
    /\ UNCHANGED pageVars

AdapterNext ==
    \/ EnterAdapter
    \/ AwaitDelay
    \/ IssueRequest
    \/ \E latency \in Latencies : SettleRequest(latency)

AdapterSpec == AdapterInit /\ [][AdapterNext]_vars

-----------------------------------------------------------------------------
(* The history source: one run for a bitcoin holding, over any series *)

MaxPoints == 3

\* Timestamps of daily points around the 23 hour threshold.
PointTimes ==
    {Now - 3 * Day, Now - 2 * Day, Now - 23 * Hour - 1, Now - 23 * Hour,
     Now - 23 * Hour + 1, Now - 2 * Hour}

\* Series of at most MaxPoints [timestamp, price] pairs, in ascending time.
HistorySeries ==
    {prices \in UNION {[1..n -> PointTimes \X {100, 200, 300}] : n \in 0..MaxPoints} :
        \A i \in 1..(Len(prices) - 1) : prices[i][1] < prices[i + 1][1]}

HistoryWorlds ==
    {[WorldOf({"bitcoin"}, TRUE, TRUE) EXCEPT !.history.prices = prices] :
        prices \in HistorySeries}

\* The run for one bitcoin holding is in flight.
HistoryInit ==
    /\ portfolio = <<Holding("bitcoin", "crypto", 2, undefined, undefined)>>
    /\ stored = saveClientPortfolio(portfolio)
    /\ priceFetcher = load(IdleFetcher, buildQuery(portfolio))
    /\ inFlight = 1
    /\ pending = "none"
    /\ changedInFlight = FALSE
    /\ completedQuery = undefined
    /\ addRemove = NoAddRemove
    /\ totalValue = 0
    /\ adapterCall = NoCall

HistoryNext ==
    \/ \E w \in HistoryWorlds : Complete(w)
    \/ Effect2

HistorySpec == HistoryInit /\ [][HistoryNext]_vars

MaxFixed == 2

\* The holdings of the forms of the refresh controller, and one metal.
FixedHoldings ==
    {newAssetOf(form, 1)[1] : form \in Forms}
    \cup {Holding("XAU", "commodity", 2, undefined, undefined)}

\* Lists of holdings with distinct ids, as the add handler builds them.
FixedPortfolios ==
    {p \in UNION {[1..n -> FixedHoldings] : n \in 0..MaxFixed} :
        \A i, j \in DOMAIN p : i # j => p[i].id # p[j].id}

\* The page mounted over stored holdings: Effect 1 has set them and
\* Effect 2 is about to be evaluated against them.
FixedInit ==
    /\ portfolio \in FixedPortfolios
    /\ stored = saveClientPortfolio(portfolio)
    /\ priceFetcher = IdleFetcher
    /\ inFlight = 0
    /\ pending = "holdings"
    /\ changedInFlight = FALSE
    /\ completedQuery = undefined
    /\ addRemove = NoAddRemove
    /\ totalValue = 0
    /\ adapterCall = NoCall

CompleteRun == \E w \in Worlds : Complete(w)

FixedNext ==
    \/ Effect2
    \/ CompleteRun

\* The controller over holdings that no handler changes: every pending
\* evaluation of the effects is made and every started run completes.
FixedSpec ==
    /\ FixedInit
    /\ [][FixedNext]_vars
    /\ WF_vars(Effect2)
    /\ WF_vars(CompleteRun)

-----------------------------------------------------------------------------
(* Vocabulary of the properties *)

\* A step in which the controller calls priceFetcher.load.
StartsRun == inFlight' = inFlight + 1

\* A state in which Effect 2 is about to be evaluated because a run completed.
AfterCompletion == pending = "completed"

\* The ids of the crypto, equity and supported commodity holdings.
NeededIdSet(p) ==
    {p[i].id : i \in {j \in DOMAIN p :
        \/ p[j].type \in {"crypto", "stock"} /\ p[j].id # ""
        \/ p[j].type = "commodity" /\ p[j].id \in supportedSymbols}}

\* The id of the first crypto-kind holding in holdings order, or "N/A".
FirstCryptoId(p) ==
    LET I == {i \in DOMAIN p : p[i].type = "crypto" /\ p[i].id # ""}
    IN IF I = {} THEN "N/A" ELSE p[CHOOSE i \in I : \A j \in I : i <= j].id

\* The featured id a run fetches history for, or "N/A".
FeaturedOf(query) ==
    IF IsDefined(historyAssetId(query)) THEN historyAssetId(query)[1] ELSE "N/A"

-----------------------------------------------------------------------------
(* C1: refresh dedup.  With the holdings unchanged since the evaluation    *)
(* that started a run, the next evaluation (the one made when that run     *)
(* completes) sees the same needed ids and the same needed featured id     *)
(* and starts no second run, whatever the run returned.                    *)
C1_RefreshDedup ==
    [][(AfterCompletion /\ ~changedInFlight) => ~StartsRun]_vars

(* C2: a run is started for non-empty holdings only if no run has ever     *)
(* completed, or the needed id set differs from the ids the last completed *)
(* run requested, or the needed featured id differs from the featured id   *)
(* that run requested.                                                     *)
C2_StartOnlyIfStale ==
    [][(StartsRun /\ portfolio # <<>>) =>
          \/ ~IsDefined(completedQuery)
          \/ NeededIdSet(portfolio) # requestedIds(completedQuery[1])
          \/ neededChartName(portfolio) # FeaturedOf(completedQuery[1])]_vars

(* C3: at most one refresh in flight.  priceFetcher.load is called only    *)
(* when the fetcher is idle and no run is in flight, in the branch for     *)
(* non-empty holdings and in the branch for empty holdings.                *)
C3_AtMostOneInFlight ==
    [][StartsRun => (priceFetcher.state = "idle" /\ inFlight = 0)]_vars

\* Holdings were added or removed during a run and Effect 2 has been
\* evaluated since: the run is still the only one.
C3_Witness ==
    /\ priceFetcher.state = "loading"
    /\ inFlight = 1
    /\ changedInFlight
    /\ pending = "none"

\* The four parallel requests of the run the query asks for, as the
\* adapters answer them in the world w.
Requests(query, w) ==
    [crypto |-> fetchCryptoPrices(splitParam(query.cryptoIds), w),
     stock |-> fetchStockPrices(splitParam(query.stockSymbols), w),
     commodity |-> fetchCommodityPrices(splitParam(query.commoditySymbols), w),
     history |-> IF IsDefined(historyAssetId(query))
                 THEN fetchCryptoHistory(historyAssetId(query)[1], w)
                 ELSE Returned(<<>>)]

Failed(query, w) == {r \in DOMAIN Requests(query, w) : Requests(query, w)[r].threw}

\* The price mapping a request contributes: its own when it succeeded,
\* the empty mapping when it failed.
Contribution(query, w, r) ==
    IF r \in Failed(query, w) THEN <<>> ELSE Requests(query, w)[r].value

(* C4: adapter failure isolation.  When exactly one of the four requests   *)
(* of a run fails, the price map the loader returns is the union of the    *)
(* mappings of the price adapters that succeeded, the failed one           *)
(* contributing the empty mapping.                                         *)
C4_AdapterFailureIsolation ==
    [][\A w \in Worlds :
          (Complete(w) /\ Cardinality(Failed(priceFetcher.query[1], w)) = 1) =>
             LET q == priceFetcher.query[1]
             IN priceFetcher'.data[1].currentPrices =
                   Spread(Spread(Contribution(q, w, "crypto"), Contribution(q, w, "stock")),
                          Contribution(q, w, "commodity"))]_vars

(* C5: history unavailable means no chart.  When the history request for   *)
(* the featured id fails and the three price requests succeed, the loader  *)
(* returns the merged prices with an empty chart series for the featured   *)
(* id, not the whole-refresh error result.                                 *)
C5_HistoryFailureIsNoChart ==
    [][\A w \in Worlds :
          (Complete(w) /\ Failed(priceFetcher.query[1], w) = {"history"}) =>
             LET q == priceFetcher.query[1]
                 R == Requests(q, w)
             IN /\ priceFetcher'.data[1].chartAssetName # "Error"
                /\ priceFetcher'.data[1].chartData = <<>>
                /\ priceFetcher'.data[1].currentPrices =
                      Spread(Spread(R.crypto.value, R.stock.value), R.commodity.value)]_vars

(* C6: featured identifier agreement.  In every run the controller        *)
(* starts, the featured id it computes as needed, the featured id the      *)
(* loader fetches history for (the first id of the query's crypto list)    *)
(* and the id of the first crypto-kind holding are the same, "N/A" when    *)
(* there is no crypto holding.                                             *)
C6_FeaturedAgreement ==
    [][StartsRun =>
          /\ neededChartName(portfolio) = FeaturedOf(priceFetcher'.query[1])
          /\ FeaturedOf(priceFetcher'.query[1]) = FirstCryptoId(portfolio)]_vars

\* An evaluation of Effect 2, of which the run in flight is no concern:
\* the component stays mounted and no run completes.
KeepsRun == pending' # "mount" /\ pending' # "completed"

\* The smallest crypto id of the holdings in sort order, or "N/A": the
\* featured id the controller computes as needed.
SmallestCryptoId(p) ==
    LET C == {p[i].id : i \in {j \in DOMAIN p : p[j].type = "crypto" /\ p[j].id # ""}}
    IN IF C = {} THEN "N/A" ELSE CHOOSE c \in C : \A d \in C : Rank(c) <= Rank(d)

\* The holdings differ from what the completed run returned.
DiffersFromReturned ==
    LET data == priceFetcher.data[1]
    IN IF portfolio # <<>>
       THEN \/ NeededIdSet(portfolio) # DOMAIN data.currentPrices
            \/ SmallestCryptoId(portfolio) # data.chartAssetName
       ELSE DOMAIN data.currentPrices # {}

\* The holdings differ from what the completed run requested.
DiffersFromRequested ==
    \/ NeededIdSet(portfolio) # requestedIds(completedQuery[1])
    \/ neededChartName(portfolio) # FeaturedOf(completedQuery[1])

\* A change of the holdings leaves a run in flight alone.
NotCancelledNorRestarted ==
    (priceFetcher.state = "loading" /\ KeepsRun) =>
        (priceFetcher' = priceFetcher /\ inFlight' = inFlight)

HoldsPrices ==
    IsDefined(priceFetcher.data) /\ DOMAIN priceFetcher.data[1].currentPrices # {}

(* C8: clearing run.  An evaluation that finds the holdings empty, the     *)
(* fetcher idle and a non-empty fetched price map starts one run with      *)
(* empty id lists; a run with empty id lists returns an empty price map;   *)
(* an evaluation that finds the holdings empty and no non-empty price map  *)
(* starts no run.                                                          *)
C8_ClearingRun ==
    [][/\ (pending # "none" /\ portfolio = <<>> /\ priceFetcher.state = "idle"
              /\ HoldsPrices) =>
             (StartsRun /\ priceFetcher'.query = Some(EmptyQuery))
       /\ (priceFetcher.query = Some(EmptyQuery) /\ pending' = "completed") =>
             priceFetcher'.data[1].currentPrices = <<>>
       /\ (pending # "none" /\ portfolio = <<>> /\ ~HoldsPrices) => ~StartsRun]_vars

\* The clearing run in flight: started for the empty holdings while the
\* fetched price map is still non-empty.
C8_Witness ==
    /\ portfolio = <<>>
    /\ priceFetcher.state = "loading"
    /\ priceFetcher.query = Some(EmptyQuery)
    /\ ~changedInFlight
    /\ HoldsPrices

\* The holdings a persisted record holds: none before the first write.
PersistedHoldings(item) == IF item.kind = "array" THEN item.items ELSE <<>>

(* C9: add/remove idempotence.  For every persisted record H and every    *)
(* holding that handleAddAsset adds, the add followed by the removal of    *)
(* that id leaves the persisted holdings equal to those of H.              *)
C9_AddRemoveRestores ==
    (addRemove.stage = "removed" /\ addRemove.accepted) =>
        PersistedHoldings(stored) = PersistedHoldings(addRemove.H)

\* No two elements of the list carry the same id.
UniqueIds(list) ==
    \A i, j \in DOMAIN list : list[i].id = list[j].id => i = j

(* C10: id uniqueness.  From an empty store, after any sequence of adds    *)
(* and removes, neither the in-memory holdings nor the persisted record    *)
(* holds two holdings with the same id.                                    *)
C10_UniqueIds ==
    UniqueIds(portfolio) /\ UniqueIds(stored.items)

\* An add of an id already held was rejected, with two holdings held.
C10_Witness ==
    /\ addRemove.stage = "added"
    /\ ~addRemove.accepted
    /\ Len(portfolio) >= 2
    /\ Len(stored.items) >= 2

(* C11: store round trip.  For every holdings list H the page can hold,    *)
(* getClientPortfolio applied to what saveClientPortfolio(H) wrote is H     *)
(* again: the same holdings with the same quantity, purchaseValue and      *)
(* currentValue (the manual value), hence the same valuation.              *)
C11_StoreRoundTrip ==
    getClientPortfolio(saveClientPortfolio(portfolio)) = portfolio

\* A step of handleAddAsset or handleRemoveAsset that changed the holdings.
HandlerChangedHoldings == pending = "none" /\ pending' = "holdings"

(* C12: full-replace persistence.  After every add or remove that changes  *)
(* the holdings the persisted record is the new in-memory holdings list as *)
(* a whole, in the same order, and no persisted holding ever carries the   *)
(* derived fields price and calculatedValue.                               *)
C12_FullReplace ==
    [][/\ HandlerChangedHoldings =>
             (stored'.kind = "array" /\ stored'.items = portfolio')
       /\ \A i \in DOMAIN stored'.items :
             /\ ~IsDefined(stored'.items[i].price)
             /\ ~IsDefined(stored'.items[i].calculatedValue)]_vars

\* An add has just changed the holdings, with two or more now held and
\* written.
C12_Witness ==
    /\ pending = "holdings"
    /\ addRemove.stage = "added"
    /\ addRemove.accepted
    /\ Len(portfolio) >= 2
    /\ stored.items = portfolio

\* The payload is not a JSON array of holdings.
Malformed(item) ==
    \/ item.kind \in {"invalid", "value"}
    \/ item.kind = "array" /\ \E i \in DOMAIN item.items : "json" \in DOMAIN item.items[i]

(* C13: malformed payload.  When the stored payload is not parseable as    *)
(* JSON, or is parseable but not an array of holdings, the holdings the     *)
(* mount loads from it are the empty list.                                 *)
C13_MalformedPayloadDiscarded ==
    (pending = "holdings" /\ Malformed(stored)) => portfolio = <<>>

\* The rows of the table: the holdings as Memo 1 values them against the
\* price map the page holds.
Prices == currentPrices(priceFetcher)
Rows == portfolioWithCalculatedValues(portfolio, Prices)

Fetchable(asset) == asset.type \in {"crypto", "stock", "commodity"}

\* The effects of the render have run.
Settled == pending \in {"none", "loading"}

\* A holding held alone is displayed with the total v once the effects
\* have run.
TotalAlone(v) == (Settled /\ Len(portfolio) = 1) => totalValue = v

(* C14: valuation rule 1.  Every holding of kind crypto, stock or          *)
(* commodity whose id has an entry in the price map has that entry's price *)
(* as its price and quantity * price as its calculated value, whatever its *)
(* purchase value; held alone, that value is the displayed total.          *)
C14_MarketValuation ==
    \A i \in DOMAIN portfolio :
        (Fetchable(portfolio[i]) /\ portfolio[i].id \in DOMAIN Prices) =>
            /\ Rows[i].price = Some(Prices[portfolio[i].id].usd)
            /\ Rows[i].calculatedValue =
                  Some(portfolio[i].quantity[1] * Prices[portfolio[i].id].usd)
            /\ TotalAlone(portfolio[i].quantity[1] * Prices[portfolio[i].id].usd)

\* A priced crypto holding that also has a purchase value, valued and summed.
C14_Witness ==
    /\ Settled
    /\ \E i \in DOMAIN portfolio :
          /\ portfolio[i].type = "crypto"
          /\ portfolio[i].purchaseValue = Some(100)
          /\ portfolio[i].quantity = Some(2)
          /\ portfolio[i].id \in DOMAIN Prices
          /\ Prices[portfolio[i].id].usd = 100
    /\ totalValue >= 200

\* The unit price of a manually valued row: the value divided by the
\* quantity when the quantity is positive, undefined otherwise.
UnitPriceOf(row, value) ==
    IF row.quantity[1] > 0
    THEN IsDefined(row.price) /\ row.price[1] * row.quantity[1] = value
    ELSE row.price = undefined

(* C15: valuation rule 2.  Every real_estate holding with a manual value   *)
(* (currentValue) has that value as its calculated value, also when the    *)
(* price map holds an entry under its id; its price is the value divided   *)
(* by the quantity when the quantity is positive and undefined when it is  *)
(* 0.                                                                      *)
C15_ManualValuation ==
    \A i \in DOMAIN portfolio :
        (portfolio[i].type = "real_estate" /\ IsDefined(portfolio[i].currentValue)) =>
            /\ Rows[i].calculatedValue = portfolio[i].currentValue
            /\ UnitPriceOf(Rows[i], portfolio[i].currentValue[1])
            /\ TotalAlone(portfolio[i].currentValue[1])

\* A real_estate holding of quantity 0 with a manual value, under an id
\* the price map has an entry for.
C15_Witness ==
    /\ Settled
    /\ \E i \in DOMAIN portfolio :
          /\ portfolio[i].type = "real_estate"
          /\ portfolio[i].currentValue = Some(300)
          /\ portfolio[i].quantity = Some(0)
          /\ portfolio[i].id \in DOMAIN Prices
    /\ totalValue >= 300

(* C16: valuation rule 3.  Every holding of kind other has its purchase    *)
(* value as its calculated value when it has one (0 included) and          *)
(* quantity * 50 when it has none, whatever the price map; its price is    *)
(* the calculated value divided by the quantity when the quantity is       *)
(* positive and undefined otherwise.                                       *)
C16_PlaceholderValuation ==
    \A i \in DOMAIN portfolio :
        portfolio[i].type = "other" =>
            /\ Rows[i].calculatedValue =
                  IF IsDefined(portfolio[i].purchaseValue) THEN portfolio[i].purchaseValue
                  ELSE Some(portfolio[i].quantity[1] * 50)
            /\ UnitPriceOf(Rows[i], Rows[i].calculatedValue[1])
            /\ TotalAlone(IF IsDefined(portfolio[i].purchaseValue)
                          THEN portfolio[i].purchaseValue[1]
                          ELSE portfolio[i].quantity[1] * 50)

\* A holding of kind other with purchase value 0 and positive quantity,
\* under an id the price map has an entry for.
C16_Witness ==
    /\ Settled
    /\ \E i \in DOMAIN portfolio :
          /\ portfolio[i].type = "other"
          /\ portfolio[i].purchaseValue = Some(0)
          /\ portfolio[i].quantity = Some(2)
          /\ portfolio[i].id \in DOMAIN Prices
    /\ totalValue = 0

(* C17: valuation rule 4.  Every holding of kind crypto, stock or          *)
(* commodity whose id has no entry in the price map, and every real_estate *)
(* holding without a manual value, has neither a price nor a calculated    *)
(* value.                                                                  *)
C17_NoValuation ==
    \A i \in DOMAIN portfolio :
        (\/ Fetchable(portfolio[i]) /\ portfolio[i].id \notin DOMAIN Prices
         \/ portfolio[i].type = "real_estate" /\ ~IsDefined(portfolio[i].currentValue)) =>
            /\ Rows[i].price = undefined
            /\ Rows[i].calculatedValue = undefined
            /\ TotalAlone(0)

\* The unsupported commodity XPT next to a real_estate holding without a
\* manual value: both unvalued, the total 0.
C17_Witness ==
    /\ Settled
    /\ \E i \in DOMAIN portfolio : portfolio[i].type = "commodity" /\ portfolio[i].id = "XPT"
    /\ \E i \in DOMAIN portfolio :
          portfolio[i].type = "real_estate" /\ ~IsDefined(portfolio[i].currentValue)
    /\ totalValue = 0

\* The sum of the calculated values of the rows of the index set I.
RECURSIVE SumOfRows(_)
SumOfRows(I) ==
    IF I = {} THEN 0
    ELSE LET i == CHOOSE k \in I : TRUE
         IN (IF IsDefined(Rows[i].calculatedValue) THEN Rows[i].calculatedValue[1] ELSE 0)
            + SumOfRows(I \ {i})

(* C18: total portfolio value.  Once the effects that follow a change of   *)
(* the holdings or of the price map have run, the displayed total is the   *)
(* sum of the calculated values of the current holdings, an undefined      *)
(* value counting 0; price map entries under ids that are not held         *)
(* contribute nothing.                                                     *)
C18_TotalValue ==
    Settled => totalValue = SumOfRows(DOMAIN portfolio)

\* Priced and unpriced holdings, and a price map entry left over from a
\* holding that was removed.
C18_Witness ==
    /\ Settled
    /\ \E i \in DOMAIN portfolio : IsDefined(Rows[i].calculatedValue)
    /\ \E i \in DOMAIN portfolio : ~IsDefined(Rows[i].calculatedValue)
    /\ \E id \in DOMAIN Prices : \A i \in DOMAIN portfolio : portfolio[i].id # id
    /\ totalValue > 0

\* The symbols the call has made a request for, in the order of the
\* requests.
AttemptedSymbols ==
    [k \in DOMAIN adapterCall.requests |-> adapterCall.requests[k].symbol]

\* The strings that denote a number.
NumericStrings == {"0", "2", "100", "300"}

\* The vendor's response for the symbol carries a valid numeric price.
ValidPrice(symbol) ==
    IF adapterCall.adapter = "stock"
    THEN /\ symbol \in DOMAIN adapterCall.w.alphaVantage
         /\ adapterCall.w.alphaVantage[symbol].kind = "quote"
         /\ adapterCall.w.alphaVantage[symbol].price \in NumericStrings
    ELSE /\ symbol \in DOMAIN adapterCall.w.goldapi
         /\ adapterCall.w.goldapi[symbol].kind = "price"

\* What the adapter function returns to the loader for the same input.
AdapterResult ==
    IF adapterCall.adapter = "stock"
    THEN fetchStockPrices(adapterCall.input, adapterCall.w)
    ELSE fetchCommodityPrices(adapterCall.input, adapterCall.w)

(* C19, as claimed: per-id failure isolation.  For every input list and    *)
(* every pattern of per-id outcomes, a call of the equity or of the        *)
(* commodity adapter has, when it returns, made a request for every id of  *)
(* the list, in order, has not thrown, and returns the mapping whose keys  *)
(* are exactly the ids of the list whose response carried a valid numeric  *)
(* price.                                                                  *)
C19_PerIdIsolation_Claimed ==
    adapterCall.pc = "returned" =>
        /\ AttemptedSymbols = adapterCall.input
        /\ DOMAIN adapterCall.results = {id \in Range(adapterCall.input) : ValidPrice(id)}
        /\ AdapterResult = Returned(adapterCall.results)

\* The ids of the list the commodity adapter supports, upper-cased, in
\* list order.
RECURSIVE SupportedUpperCased(_)
SupportedUpperCased(list) ==
    IF list = <<>> THEN <<>>
    ELSE IF toUpperCase(Head(list)) \in {"XAU", "XAG"}
    THEN <<toUpperCase(Head(list))>> \o SupportedUpperCased(Tail(list))
    ELSE SupportedUpperCased(Tail(list))

\* The ids an adapter is to fetch: all of them in the equity adapter, the
\* supported ones in the commodity adapter.
IdsToFetch ==
    IF adapterCall.adapter = "commodity" THEN SupportedUpperCased(adapterCall.input)
    ELSE adapterCall.input

(* C19, amended: for every input list and every pattern of per-id          *)
(* outcomes, a call of the equity adapter has, when it returns, made a     *)
(* request for every id of the list, and a call of the commodity adapter   *)
(* for every id of the list that is on its allow-list, upper-cased; the    *)
(* call has not thrown, and it returns the mapping whose keys are exactly  *)
(* the requested ids whose response carried a valid numeric price.         *)
C19_PerIdIsolation ==
    adapterCall.pc = "returned" =>
        /\ AttemptedSymbols = IdsToFetch
        /\ DOMAIN adapterCall.results = {id \in Range(IdsToFetch) : ValidPrice(id)}
        /\ AdapterResult = Returned(adapterCall.results)

\* A call of the equity adapter with three ids has returned: the first
\* request failed, a later response carried a price.
C19_Witness ==
    /\ adapterCall.pc = "returned"
    /\ adapterCall.adapter = "stock"
    /\ Len(adapterCall.requests) = 3
    /\ adapterCall.w.alphaVantage[adapterCall.requests[1].symbol].kind = "http_error"
    /\ adapterCall.requests[3].symbol # adapterCall.requests[1].symbol
    /\ adapterCall.requests[3].symbol \in DOMAIN adapterCall.results

(* C20: rate-limit ordering.  In a call of the equity adapter and in a     *)
(* call of the commodity adapter the requests are made in the order of the *)
(* list the loop runs over; a request is started only when the previous    *)
(* one has finished, and not before a full inter-request delay has passed  *)
(* since then.                                                             *)
C20_RateLimitOrdering ==
    LET requests == adapterCall.requests
    IN /\ \A k \in DOMAIN requests :
             requests[k].symbol = toUpperCase(adapterCall.symbols[k])
       /\ \A k \in 1..(Len(requests) - 1) :
             /\ requests[k].finished >= 0
             /\ requests[k + 1].started >= requests[k].finished + InterRequestDelay

\* The fixed allow-list of the commodity adapter.
AllowList == {"XAU", "XAG"}

(* C21: commodity allow-list.  For every input list, every request a call *)
(* of the commodity adapter makes is for a symbol of the allow-list        *)
(* {XAU, XAG}; a call whose input has no symbol of the allow-list (in any  *)
(* letter case) makes no request; and the results never have a key outside *)
(* the allow-list.                                                         *)
C21_CommodityAllowList ==
    adapterCall.adapter = "commodity" =>
        /\ \A k \in DOMAIN adapterCall.requests :
              adapterCall.requests[k].symbol \in AllowList
        /\ (\A k \in DOMAIN adapterCall.input :
               toUpperCase(adapterCall.input[k]) \notin AllowList)
              => adapterCall.requests = <<>>
        /\ DOMAIN adapterCall.results \subseteq AllowList

\* A call of the commodity adapter with supported and unsupported symbols
\* has returned with a price; and the request it made was for the
\* supported one.
C21_Witness ==
    /\ adapterCall.adapter = "commodity"
    /\ adapterCall.pc = "returned"
    /\ \E k \in DOMAIN adapterCall.input : adapterCall.input[k] = "XPT"
    /\ Len(adapterCall.requests) = 1
    /\ DOMAIN adapterCall.results # {}

\* The last point of the series is less than 23 hours old at the time now.
LastPointIsRecent(prices, now) ==
    prices # <<>> /\ now - prices[Len(prices)][1] < 23 * 60

\* The chart series the loader makes of a history series: a point per
\* pair, its calendar day and its price.
ChartOf(prices) ==
    [i \in DOMAIN prices |-> [date |-> prices[i][1] \div (24 * 60), value |-> prices[i][2]]]

(* C22: history trailing-point filter.  For every series the history       *)
(* source fetches, the series the run returns is the fetched one without   *)
(* its last point when that point is less than 23 hours old, and the       *)
(* fetched one unchanged otherwise: at most one point is removed, the      *)
(* others keep their order.                                                *)
C22_TrailingPointFilter ==
    [][\A w \in HistoryWorlds :
          Complete(w) =>
             LET prices == w.history.prices
                 chartData == priceFetcher'.data[1].chartData
             IN /\ Len(prices) - Len(chartData) \in {0, 1}
                /\ chartData = SubSeq(ChartOf(prices), 1, Len(chartData))
                /\ Len(chartData) < Len(prices) <=> LastPointIsRecent(prices, w.now)]_vars

\* A run has returned a chart of two points (of a series of three whose
\* last point was recent, or of a series of two).
C22_Witness ==
    /\ pending = "completed"
    /\ IsDefined(priceFetcher.data)
    /\ Len(priceFetcher.data[1].chartData) = 2
    /\ priceFetcher.data[1].chartAssetName = "bitcoin"

\* The price adapters of a run, of which the loader merges the results.
PriceAdapters == {"crypto", "stock", "commodity"}

(* C23: wholesale price map replacement.  While a refresh is in flight     *)
(* the price map used for valuation stays the previous one, and when a     *)
(* run whose three price adapters returned completes, the price map is     *)
(* exactly the union of the three results of that run, with no entry of    *)
(* an earlier run.                                                         *)
C23_WholesaleReplacement ==
    [][/\ (priceFetcher'.state = "loading" /\ pending' # "mount") =>
             currentPrices(priceFetcher') = currentPrices(priceFetcher)
       /\ \A w \in Worlds :
             (Complete(w) /\ Failed(priceFetcher.query[1], w) \cap PriceAdapters = {}) =>
                LET R == Requests(priceFetcher.query[1], w)
                IN currentPrices(priceFetcher') =
                      Spread(Spread(R.crypto.value, R.stock.value), R.commodity.value)]_vars

(* C24: quiescence.  With the holdings fixed and every started run        *)
(* completing, the controller starts finitely many runs: from some point   *)
(* on no run is in flight and no evaluation of the effects is pending,     *)
(* whatever the holdings and whatever each run returned.                   *)
C24_Quiescence == <>[](priceFetcher.state = "idle" /\ pending = "none")

\* The add handler is given a form that must be rejected: a coin or an
\* equity without id, or a form whose holding carries an id already held.
RejectedAdd(form, now) ==
    \/ form.type \in {"crypto", "stock"} /\ form.id = ""
    \/ /\ IsDefined(newAssetOf(form, now))
       /\ \E i \in DOMAIN portfolio : portfolio[i].id = newAssetOf(form, now)[1].id

\* What a rejected add must leave alone: the holdings, the persisted
\* record, the fetcher and the schedule of the effects.
AddFootprint == <<portfolio, stored, priceFetcher, inFlight, pending, totalValue>>

(* C25: a rejected add leaves the state unchanged.  When handleAddAsset    *)
(* is given a holding whose id already exists, or a crypto or equity       *)
(* holding with no id, it cannot change the in-memory holdings or the      *)
(* persisted record, and it triggers no refresh.                           *)
C25_RejectedAddUnchanged ==
    \A form \in StoreForms, now \in StoreClock :
        RejectedAdd(form, now) =>
            ~ENABLED (handleAddAsset(form, now) /\ AddFootprint' # AddFootprint)

\* A duplicate add was rejected with one holding held: the persisted
\* record is the one before the add, and the form without id can be
\* submitted as well.
C25_Witness ==
    /\ addRemove.stage = "added"
    /\ ~addRemove.accepted
    /\ stored = addRemove.H
    /\ Len(portfolio) = 1
    /\ pending = "none"
    /\ \E form \in StoreForms, now \in StoreClock :
          /\ form.id = ""
          /\ RejectedAdd(form, now)
          /\ ENABLED handleAddAsset(form, now)

====
